---------------------------- MODULE Spec2Model ----------------------------
(***************************************************************************)
(* Model of backend/app.py: the POST /build handler of the docker builder  *)
(* service, with its helpers clean_build_dir, clone_repository and         *)
(* detect_project_type, the PROJECT_CONFIGS catalog, the shared            *)
(* /tmp/builds directory and the module-level docker client.               *)
(*                                                                         *)
(* Text that the code takes apart (the repository URL, the lines of the    *)
(* build log) is a sequence of one-character strings; text that the code   *)
(* only passes along (file names, Dockerfile templates, messages) is a     *)
(* TLA+ string.                                                            *)
(***************************************************************************)
EXTENDS Integers, Sequences, FiniteSets, TLC

(***************************************************************************)
(* Characters and the string functions of Python the handler uses.         *)
(***************************************************************************)
LowerLetters ==
    {"a","b","c","d","e","f","g","h","i","j","k","l","m",
     "n","o","p","q","r","s","t","u","v","w","x","y","z"}

UpperToLower ==
    [A |-> "a", B |-> "b", C |-> "c", D |-> "d", E |-> "e", F |-> "f",
     G |-> "g", H |-> "h", I |-> "i", J |-> "j", K |-> "k", L |-> "l",
     M |-> "m", N |-> "n", O |-> "o", P |-> "p", Q |-> "q", R |-> "r",
     S |-> "s", T |-> "t", U |-> "u", V |-> "v", W |-> "w", X |-> "x",
     Y |-> "y", Z |-> "z"]

UpperLetters == DOMAIN UpperToLower

Digits == {"0","1","2","3","4","5","6","7","8","9"}

Whitespace == {" ", "\t", "\n", "\r"}

SetMin(S) == CHOOSE x \in S : \A y \in S : x <= y

SetMax(S) == CHOOSE x \in S : \A y \in S : x >= y

\* str.strip(): the text without its leading and trailing whitespace
Strip(s) ==
    LET keep == {i \in 1..Len(s) : s[i] \notin Whitespace}
    IN  IF keep = {} THEN <<>> ELSE SubSeq(s, SetMin(keep), SetMax(keep))

\* str.lower()
Lower(s) ==
    [i \in 1..Len(s) |->
        IF s[i] \in UpperLetters THEN UpperToLower[s[i]] ELSE s[i]]

\* str.find(c): the first position of c in s, 0 when there is none
Find(s, c) ==
    LET at == {i \in 1..Len(s) : s[i] = c}
    IN  IF at = {} THEN 0 ELSE SetMin(at)

\* str.rfind(c): the last position of c in s, 0 when there is none
RFind(s, c) ==
    LET at == {i \in 1..Len(s) : s[i] = c}
    IN  IF at = {} THEN 0 ELSE SetMax(at)

\* s[i:] of Python, with the 1-based position of the first character kept
From(s, i) == SubSeq(s, i, Len(s))

\* the text before the first character of stops, and the text from it on
CutAt(s, stops) ==
    LET at == {i \in 1..Len(s) : s[i] \in stops}
        k  == IF at = {} THEN Len(s) + 1 ELSE SetMin(at)
    IN  [head |-> SubSeq(s, 1, k - 1), tail |-> From(s, k)]

(***************************************************************************)
(* urllib.parse.urlparse, as far as build_image reads its result: the      *)
(* scheme, the netloc and the path.  raises is TRUE where urlsplit raises  *)
(* ValueError("Invalid IPv6 URL").                                         *)
(***************************************************************************)
SchemeChars == LowerLetters \cup UpperLetters \cup Digits \cup {"+", "-", "."}

urlparse(url) ==
    LET i         == Find(url, ":")
        hasScheme == /\ i > 1
                     /\ url[1] \in LowerLetters \cup UpperLetters
                     /\ \A k \in 1..(i - 1) : url[k] \in SchemeChars
        scheme    == IF hasScheme THEN Lower(SubSeq(url, 1, i - 1)) ELSE <<>>
        rest      == IF hasScheme THEN From(url, i + 1) ELSE url
        hasNetloc == Len(rest) >= 2 /\ rest[1] = "/" /\ rest[2] = "/"
        split     == CutAt(From(rest, 3), {"/", "?", "#"})
        netloc    == IF hasNetloc THEN split.head ELSE <<>>
        after     == IF hasNetloc THEN split.tail ELSE rest
        open      == \E k \in 1..Len(netloc) : netloc[k] = "["
        close     == \E k \in 1..Len(netloc) : netloc[k] = "]"
    IN  [raises |-> (open /\ ~close) \/ (close /\ ~open),
         scheme |-> scheme,
         netloc |-> netloc,
         path   |-> CutAt(after, {"?", "#"}).head]

(***************************************************************************)
(* pathlib.Path(path).stem: the last component of the path, without its    *)
(* final suffix.  Empty components and "." components are no components.   *)
(***************************************************************************)
RECURSIVE Components(_)
Components(path) ==
    IF path = <<>> THEN <<>>
    ELSE LET cut  == CutAt(path, {"/"})
             rest == IF cut.tail = <<>> THEN <<>>
                     ELSE Components(Tail(cut.tail))
         IN  IF cut.head = <<>> \/ cut.head = <<".">>
             THEN rest ELSE <<cut.head>> \o rest

PathStem(path) ==
    LET parts == Components(path)
        name  == IF parts = <<>> THEN <<>> ELSE parts[Len(parts)]
        dot   == RFind(name, ".")
    IN  IF 1 < dot /\ dot < Len(name) THEN SubSeq(name, 1, dot - 1) ELSE name

\* re.sub(r'[^a-z0-9-]', '-', s)
SafeChars == LowerLetters \cup Digits \cup {"-"}

\* mutant of Sanitize: no character is replaced
SanitizeNothing(s) == s

Sanitize(s) ==
    [i \in 1..Len(s) |-> IF s[i] \in SafeChars THEN s[i] ELSE "-"]

\* repo_name of build_image, line 193
RepoName(path) == Sanitize(Lower(PathStem(path)))


(***************************************************************************)
(* PROJECT_CONFIGS: its entries, and the list in its order.                *)
(***************************************************************************)
NextjsConfig ==
    [type       |-> "nextjs",
     detect     |-> <<"next.config.js">>,
     dockerfile |-> "FROM node:16\nWORKDIR /app\nCOPY package*.json ./\nRUN npm install\nCOPY . .\nRUN npm run build\nEXPOSE 3000\nCMD [\"npm\", \"run\", \"start\"]",
     port       |-> 3000]

ReactConfig ==
    [type       |-> "react",
     detect     |-> <<"package.json", "src/App.js">>,
     dockerfile |-> "FROM node:16\nWORKDIR /app\nCOPY package*.json ./\nRUN npm install\nCOPY . .\nRUN npm run build\nEXPOSE 3000\nCMD [\"npm\", \"start\"]",
     port       |-> 3000]

NodeConfig ==
    [type       |-> "node",
     detect     |-> <<"package.json">>,
     dockerfile |-> "FROM node:16\nWORKDIR /app\nCOPY package*.json ./\nRUN npm install\nCOPY . .\nEXPOSE 3000\nCMD [\"npm\", \"start\"]",
     port       |-> 3000]

PythonConfig ==
    [type       |-> "python",
     detect     |-> <<"requirements.txt">>,
     dockerfile |-> "FROM python:3.9\nWORKDIR /app\nCOPY requirements.txt ./\nRUN pip install -r requirements.txt\nCOPY . .\nEXPOSE 5000\nCMD [\"python\", \"app.py\"]",
     port       |-> 5000]

StaticConfig ==
    [type       |-> "static",
     detect     |-> <<"index.html">>,
     dockerfile |-> "FROM nginx:alpine\nCOPY . /usr/share/nginx/html\nEXPOSE 80\nCMD [\"nginx\", \"-g\", \"daemon off;\"]",
     port       |-> 80]

\* mutant of PROJECT_CONFIGS: the generic node entry put before react
GenericFirstConfigs ==
    <<NextjsConfig, NodeConfig, ReactConfig, PythonConfig, StaticConfig>>

PROJECT_CONFIGS ==
    <<NextjsConfig, ReactConfig, NodeConfig, PythonConfig, StaticConfig>>

\* the value of config before detect_project_type has run
NoConfig == [type |-> "", detect |-> <<>>, dockerfile |-> "", port |-> 0]

(***************************************************************************)
(* The directories under /tmp/builds.  A workspace is named by repo_name;  *)
(* the empty name is /tmp/builds itself (Path("/tmp/builds/")).  A         *)
(* directory holds the files of the fetched tree that the catalog looks    *)
(* for, and the text of its Dockerfile.                                    *)
(***************************************************************************)
Root == <<>>

NoFile == "<no file>"

NoDir == [exists |-> FALSE, files |-> {}, dockerfile |-> NoFile]

EmptyDir == [exists |-> TRUE, files |-> {}, dockerfile |-> NoFile]

\* (build_dir / file).exists()
FileExists(dir, file) == dir.exists /\ file \in dir.files

\* detect_project_type: the first entry whose detect files all exist
MatchingConfigs(dir) ==
    {i \in 1..Len(PROJECT_CONFIGS) :
        \A k \in 1..Len(PROJECT_CONFIGS[i].detect) :
            FileExists(dir, PROJECT_CONFIGS[i].detect[k])}

\* mutant of detect_project_type: any() where the code has all()
detect_any_file(dir) ==
    LET some == {i \in 1..Len(PROJECT_CONFIGS) :
                    \E k \in 1..Len(PROJECT_CONFIGS[i].detect) :
                        FileExists(dir, PROJECT_CONFIGS[i].detect[k])}
    IN  IF some # {} THEN PROJECT_CONFIGS[SetMin(some)]
        ELSE PROJECT_CONFIGS[Len(PROJECT_CONFIGS)]

detect_project_type(dir) ==
    IF MatchingConfigs(dir) # {}
    THEN PROJECT_CONFIGS[SetMin(MatchingConfigs(dir))]
    ELSE PROJECT_CONFIGS[Len(PROJECT_CONFIGS)]

(***************************************************************************)
(* The "logs" entry of the success response, lines 216-218: the stripped   *)
(* 'stream' text of the lines that have a non-blank 'stream', cut to the   *)
(* last 20.  A line of build_logs is a record; lines without a 'stream'    *)
(* field (aux, status) carry no log text.                                  *)
(***************************************************************************)
LogWindow == 20

HasStreamText(line) ==
    "stream" \in DOMAIN line /\ Strip(line.stream) # <<>>

\* mutant of LastOf: the slice [:n] where the code has [-n:]
FirstOf(s, n) ==
    IF Len(s) <= n THEN s ELSE SubSeq(s, 1, n)

\* s[-n:] of Python
LastOf(s, n) ==
    IF Len(s) <= n THEN s ELSE SubSeq(s, Len(s) - n + 1, Len(s))

ResponseLogs(build_logs) ==
    LET kept == SelectSeq(build_logs, HasStreamText)
    IN  LastOf([i \in 1..Len(kept) |-> Strip(kept[i].stream)], LogWindow)

(***************************************************************************)
(* Messages, exceptions and responses.  A message is a fixed text, the     *)
(* diagnostic phrases put after it and the path put after it; str(e) of an *)
(* exception is its msg.                                                   *)
(***************************************************************************)
Msg(text, detail, path) == [text |-> text, detail |-> detail, path |-> path]

Exception(type, msg) == [type |-> type, msg |-> msg]

NoException == Exception("", Msg("", <<>>, <<>>))

\* jsonify({"error": msg}), code
ErrorResponse(code, msg) == [code |-> code, body |-> [error |-> msg]]

\* what Flask answers for an exception that leaves the view function: the
\* HTML page of the HTTP error raised, or of 500 for any other exception
FrameworkResponse(code) == [code |-> code, body |-> [html |-> "error page"]]

NoResponse == [code |-> 0, body |-> [none |-> TRUE]]

BuildsRoot == <<"/","t","m","p","/","b","u","i","l","d","s">>

\* build_dir of build_image, line 194: Path drops the trailing slash
BuildDir(name) == IF name = Root THEN BuildsRoot ELSE BuildsRoot \o <<"/">> \o name

\* the tag handed to the engine, line 207
ImageTag(name) ==
    <<"b","u","i","l","d","e","r","/">> \o name \o <<":","l","a","t","e","s","t">>

\* the success response, lines 211-220; image is image.tags[0] of the image
\* the engine returned
SuccessResponse(image, cfg, build_logs) ==
    [code |-> 200,
     body |-> [status      |-> "success",
               image       |-> image,
               type        |-> cfg.type,
               port        |-> cfg.port,
               logs        |-> ResponseLogs(build_logs),
               run_command |-> [text      |-> "docker run -p",
                                host      |-> 8080,
                                container |-> cfg.port,
                                image     |-> image]]]

(***************************************************************************)
(* The request body, as request.is_json and request.get_json() see it.     *)
(***************************************************************************)
JsonText(chars) == [type |-> "string", text |-> chars]

JsonNumber == [type |-> "number", text |-> <<>>]

Absent == [type |-> "absent", text |-> <<>>]

\* a JSON object with the given value (or none) under "repo_url"
JsonObject(v) == [type |-> "object", repo_url |-> v]

JsonArray == [type |-> "array", repo_url |-> Absent]

JsonNull == [type |-> "null", repo_url |-> Absent]

Body(is_json, well_formed, data) ==
    [is_json |-> is_json, well_formed |-> well_formed, data |-> data]

NoBody == Body(FALSE, FALSE, JsonNull)

UrlStatic == <<"h","t","t","p","s",":","/","/","e","x","a","m","p","l","e",".","c","o","m","/","o","r","g","/","m","y","-","s","t","a","t","i","c","-","s","i","t","e",".","g","i","t">>

UrlApp == <<"h","t","t","p","s",":","/","/","e","x","a","m","p","l","e",".","c","o","m","/","o","r","g","/","a","p","p",".","g","i","t">>

UrlFork == <<" ","h","t","t","p","s",":","/","/","e","x","a","m","p","l","e",".","c","o","m","/","f","o","r","k","/","A","p","p",".","g","i","t"," ">>

UrlRoot == <<"h","t","t","p","s",":","/","/","e","x","a","m","p","l","e",".","c","o","m">>

UrlBlank == <<" "," ">>

UrlNoScheme == <<"n","o","t","-","a","-","u","r","l">>

UrlNoHost == <<"h","t","t","p","s",":","/","o","r","g","/","a","p","p",".","g","i","t">>

UrlNoSchemeHost == <<"/","/","e","x","a","m","p","l","e",".","c","o","m","/","o","r","g","/","a","p","p",".","g","i","t">>

UrlBadBracket == <<"h","t","t","p","s",":","/","/","[","e","x","a","m","p","l","e",".","c","o","m","/","a","p","p">>

Urls ==
    {UrlStatic, UrlApp, UrlFork, UrlRoot, UrlBlank, UrlNoScheme, UrlNoHost,
     UrlNoSchemeHost, UrlBadBracket, <<>>}

Bodies ==
    {Body(TRUE, TRUE, JsonObject(JsonText(u))) : u \in Urls}
    \cup {Body(FALSE, TRUE, JsonObject(JsonText(UrlApp))),
          Body(TRUE, FALSE, JsonNull),
          Body(TRUE, TRUE, JsonNull),
          Body(TRUE, TRUE, JsonArray),
          Body(TRUE, TRUE, JsonObject(Absent)),
          Body(TRUE, TRUE, JsonObject(JsonNumber))}

(***************************************************************************)
(* Lines 178-194 of build_image: what the handler does with a body before  *)
(* it touches the workspace.  The result says whether the handler goes on  *)
(* (and with which repo_url and repo_name), answers at once, or lets an    *)
(* exception escape.                                                       *)
(***************************************************************************)
Outcome(goes_on, response, exception, repo_url, name) ==
    [goes_on |-> goes_on, response |-> response, exception |-> exception,
     repo_url |-> repo_url, repo_name |-> name]

Answer(response) == Outcome(FALSE, response, NoException, <<>>, Root)

Escapes(code, type, text) ==
    Outcome(FALSE, FrameworkResponse(code),
            Exception(type, Msg(text, <<>>, <<>>)), <<>>, Root)

\* lines 187-194, with repo_url a non-empty stripped string
ValidateUrl(repo_url) ==
    LET parsed == urlparse(repo_url)
    IN  IF parsed.raises
        THEN Outcome(FALSE,
                     ErrorResponse(500, Msg("Internal server error", <<>>, <<>>)),
                     Exception("ValueError", Msg("Invalid IPv6 URL", <<>>, <<>>)),
                     repo_url, Root)
        ELSE IF parsed.scheme = <<>> \/ parsed.netloc = <<>>
        THEN Answer(ErrorResponse(400, Msg("Invalid repository URL", <<>>, <<>>)))
        ELSE Outcome(TRUE, NoResponse, NoException, repo_url,
                     RepoName(parsed.path))

\* lines 178-185
Validate(b) ==
    IF ~b.is_json
    THEN Answer(ErrorResponse(400, Msg("Request must be JSON", <<>>, <<>>)))
    ELSE IF ~b.well_formed
    THEN Escapes(400, "BadRequest", "Failed to decode JSON object")
    ELSE IF b.data.type # "object"
    THEN Escapes(500, "AttributeError", "object has no attribute 'get'")
    ELSE IF b.data.repo_url.type \notin {"absent", "string"}
    THEN Escapes(500, "AttributeError", "object has no attribute 'strip'")
    ELSE LET repo_url == IF b.data.repo_url.type = "absent" THEN <<>>
                         ELSE Strip(b.data.repo_url.text)
         IN  IF repo_url = <<>>
             THEN Answer(ErrorResponse(400, Msg("Missing repo_url", <<>>, <<>>)))
             ELSE ValidateUrl(repo_url)

(***************************************************************************)
(* What the outside world may hand to a request: the tree a clone fetches, *)
(* the stderr of a failing git, the lines and the errors of the engine.    *)
(***************************************************************************)
DetectFiles ==
    {"next.config.js", "package.json", "src/App.js", "requirements.txt",
     "index.html"}

OwnDockerfile == "FROM scratch\nCOPY . /\n"

Tree(files, dockerfile) == [files |-> files, dockerfile |-> dockerfile]

NoTree == Tree({"<nothing fetched>"}, NoFile)

AllTrees ==
    {Tree(f, d) : f \in SUBSET DetectFiles, d \in {NoFile, OwnDockerfile}}

SomeTrees ==
    {Tree({"index.html"}, NoFile),
     Tree({"next.config.js", "package.json"}, NoFile),
     Tree({"package.json", "src/App.js"}, OwnDockerfile)}

GitStderrs ==
    {<<"remote: ", "Repository not found", ".", "\n">>,
     <<"fatal: ", "could not read Username", " for 'https://example.com'", "\n">>,
     <<"fatal: destination path already exists and is not an empty directory.", "\n">>}

EngineErrors ==
    {Exception("BuildError",
               Msg("", <<"The command '/bin/sh -c npm install' returned a non-zero code: 1">>, <<>>)),
     Exception("APIError",
               Msg("", <<"500 Server Error: Cannot locate specified Dockerfile">>, <<>>))}

DigitSeq == <<"0","1","2","3","4","5","6","7","8","9">>

\* line i of a build log of pattern p: every p-th line carries no log text
\* (an aux line, or a blank stream), the others are numbered stream lines
LineAt(i, p) ==
    LET d1 == DigitSeq[(i \div 10) + 1]
        d2 == DigitSeq[(i % 10) + 1]
    IN  IF i % p = 0
        THEN IF (i \div p) % 2 = 0
             THEN [stream |-> <<" ", "\n">>]
             ELSE [aux |-> <<"I", "D">>]
        ELSE IF i % 2 = 0
             THEN [stream |-> <<"S","t","e","p"," ",d1,d2,"\n">>]
             ELSE [stream |-> <<" ","-","-","-",">"," ",d1,d2,"\n">>]

BuildLog(n, p) == [i \in 1..n |-> LineAt(i, p)]

MaxLogLines == 24

LogPatterns == {2, 8}

AllLogs == {BuildLog(n, p) : n \in 0..MaxLogLines, p \in LogPatterns}

SomeLogs == {BuildLog(3, 2)}

(***************************************************************************)
(* State.                                                                  *)
(***************************************************************************)
Requests == {"r1", "r2"}

Workspaces == {Validate(b).repo_name : b \in Bodies}

VARIABLES
    client,     \* the module-level docker client: "connected" or "None"
    fs,         \* the directories under /tmp/builds, by workspace name
    pc,         \* where each request is in build_image
    input,      \* the body each request came with
    repo_name,  \* repo_name of each request (build_dir is BuildDir of it)
    attempt,    \* failed attempts of the clean_build_dir call each request is in
    config,     \* config of each request
    resp,       \* the response of each request; returned when pc is "done"
    raised,     \* the exception raised in each request, if any
    steps,      \* the helpers each request has called, in order
    fetched,    \* the tree each request's clone fetched
    stderr,     \* e.stderr of each request's failed git
    built,      \* the Dockerfile text the engine found, per request
    build_logs  \* build_logs of each request, as the engine returned it

vars ==
    <<client, fs, pc, input, repo_name, attempt, config, resp, raised, steps,
      fetched, stderr, built, build_logs>>

NotBuilt == "<engine not invoked>"

\* shutil.rmtree(path): the directory and all below it are gone
RmTree(f, w) ==
    IF w = Root THEN [x \in Workspaces |-> NoDir] ELSE [f EXCEPT ![w] = NoDir]

\* Path.mkdir(parents=True, exist_ok=True)
MkDir(f, w) ==
    [x \in Workspaces |->
        IF x \in {w, Root} /\ ~f[x].exists THEN EmptyDir ELSE f[x]]

\* git clone accepts a destination that does not exist or is an empty directory
CloneTarget(f, w) ==
    \/ ~f[w].exists
    \/ /\ f[w] = EmptyDir
       /\ w = Root => \A x \in Workspaces \ {Root} : ~f[x].exists

\* a leftover of an earlier run of the service
LeftOver ==
    [x \in Workspaces |->
        IF x = Root THEN EmptyDir
        ELSE IF x = RepoName(urlparse(UrlApp).path)
        THEN [exists |-> TRUE, files |-> {"index.html"},
              dockerfile |-> StaticConfig.dockerfile]
        ELSE NoDir]

Init ==
    /\ client \in {"connected", "None"}
    /\ fs \in {[x \in Workspaces |-> NoDir], LeftOver}
    /\ pc = [r \in Requests |-> "idle"]
    /\ input = [r \in Requests |-> NoBody]
    /\ repo_name = [r \in Requests |-> Root]
    /\ attempt = [r \in Requests |-> 0]
    /\ config = [r \in Requests |-> NoConfig]
    /\ resp = [r \in Requests |-> NoResponse]
    /\ raised = [r \in Requests |-> NoException]
    /\ steps = [r \in Requests |-> <<>>]
    /\ fetched = [r \in Requests |-> NoTree]
    /\ stderr = [r \in Requests |-> <<>>]
    /\ built = [r \in Requests |-> NotBuilt]
    /\ build_logs = [r \in Requests |-> <<>>]

(***************************************************************************)
(* build_image, one action per step of the handler.                        *)
(***************************************************************************)
Called(r, step) == steps' = [steps EXCEPT ![r] = Append(@, step)]

\* mutant of Fails: the response the outer except clause makes
FailsGeneric(r, e) ==
    /\ raised' = [raised EXCEPT ![r] = e]
    /\ resp' = [resp EXCEPT ![r] =
                   ErrorResponse(500, Msg("Internal server error", <<>>, <<>>))]
    /\ pc' = [pc EXCEPT ![r] = "finally"]

\* mutant of Fails: the failure is recorded and the handler goes on to the
\* build step
FailsAndGoesOn(r, e) ==
    /\ raised' = [raised EXCEPT ![r] = e]
    /\ resp' = [resp EXCEPT ![r] = ErrorResponse(500, e.msg)]
    /\ pc' = [pc EXCEPT ![r] = "build"]

\* the except clause of lines 222-224: the response is made, the finally
\* clause is still to run
Fails(r, e) ==
    /\ raised' = [raised EXCEPT ![r] = e]
    /\ resp' = [resp EXCEPT ![r] = ErrorResponse(500, e.msg)]
    /\ pc' = [pc EXCEPT ![r] = "finally"]

\* mutant of Receive: the workspace is chosen per request, the second request
\* never gets the directory the repository name gives
ReceivePerRequest(r, bodies) ==
    /\ pc[r] = "idle"
    /\ \E b \in bodies :
          LET v == Validate(b)
              own == IF r = "r1" \/ ~v.goes_on THEN v.repo_name
                     ELSE CHOOSE x \in Workspaces : x # v.repo_name
          IN  /\ input' = [input EXCEPT ![r] = b]
              /\ repo_name' = [repo_name EXCEPT ![r] = own]
              /\ raised' = [raised EXCEPT ![r] = v.exception]
              /\ resp' = [resp EXCEPT ![r] = v.response]
              /\ pc' = [pc EXCEPT ![r] = IF v.goes_on THEN "prepare" ELSE "done"]
    /\ UNCHANGED <<client, fs, attempt, config, steps, fetched, stderr, built,
                   build_logs>>

\* lines 176-194: the request arrives and is validated
Receive(r, bodies) ==
    /\ pc[r] = "idle"
    /\ \E b \in bodies :
          LET v == Validate(b)
          IN  /\ input' = [input EXCEPT ![r] = b]
              /\ repo_name' = [repo_name EXCEPT ![r] = v.repo_name]
              /\ raised' = [raised EXCEPT ![r] = v.exception]
              /\ resp' = [resp EXCEPT ![r] = v.response]
              /\ pc' = [pc EXCEPT ![r] = IF v.goes_on THEN "prepare" ELSE "done"]
    /\ UNCHANGED <<client, fs, attempt, config, steps, fetched, stderr, built,
                   build_logs>>

\* for attempt in range(3), line 104
MaxAttempts == 3

\* mutant of AttemptsLeft: one attempt more than range(3) makes
AttemptsLeftOffByOne(made) == made <= MaxAttempts

\* the loop goes on after `made` failed attempts
AttemptsLeft(made) == made < MaxAttempts

\* lines 102-113: one attempt of clean_build_dir.  rmtree(ignore_errors=True)
\* removes the directory or silently leaves it; mkdir makes it or raises.
CleanAttempt(r) ==
    /\ pc[r] = "prepare"
    /\ \E removed \in BOOLEAN, made \in BOOLEAN :
          LET w  == repo_name[r]
              f1 == IF fs[w].exists /\ removed THEN RmTree(fs, w) ELSE fs
              n  == attempt[r] + 1
          IN  IF made
              THEN /\ fs' = MkDir(f1, w)
                   /\ attempt' = [attempt EXCEPT ![r] = 0]
                   /\ pc' = [pc EXCEPT ![r] = "clone"]
                   /\ UNCHANGED <<raised, resp>>
              ELSE /\ fs' = f1
                   /\ IF AttemptsLeft(n)
                      THEN /\ attempt' = [attempt EXCEPT ![r] = n]
                           /\ UNCHANGED <<pc, raised, resp>>
                      ELSE /\ attempt' = [attempt EXCEPT ![r] = 0]
                           /\ Fails(r, Exception("RuntimeError",
                                  Msg("Failed to clean build directory: ",
                                      <<>>, BuildDir(w))))
    /\ IF attempt[r] = 0 THEN Called(r, "prepare") ELSE UNCHANGED steps
    /\ UNCHANGED <<client, input, repo_name, config, fetched, stderr, built,
                   build_logs>>

\* e.stderr.strip(), on the phrases of the text
StripPhrases(text) ==
    LET keep == {i \in 1..Len(text) : text[i] \notin Whitespace}
    IN  IF keep = {} THEN <<>>
        ELSE SubSeq(text, SetMin(keep), SetMax(keep))

Contains(phrases, phrase) == \E i \in 1..Len(phrases) : phrases[i] = phrase

\* lines 127-133: the exception clone_repository raises for a failed git
CloneError(e_stderr) ==
    LET error_msg == StripPhrases(e_stderr)
    IN  IF Contains(error_msg, "Repository not found")
        THEN Exception("ValueError",
                 Msg("Repository not found or private (needs access token)",
                     <<>>, <<>>))
        ELSE IF Contains(error_msg, "could not read Username")
        THEN Exception("ValueError",
                 Msg("Authentication failed - use HTTPS with token", <<>>, <<>>))
        ELSE Exception("RuntimeError", Msg("Git clone failed: ", error_msg, <<>>))

\* mutant of Clone: a failed git is run again
CloneWithRetry(r, trees) ==
    /\ pc[r] = "clone"
    /\ Called(r, "fetch")
    /\ LET w == repo_name[r]
       IN  \/ /\ CloneTarget(fs, w)
              /\ \E t \in trees :
                    /\ fs' = [MkDir(fs, w) EXCEPT ![w] =
                                 [exists |-> TRUE, files |-> t.files,
                                  dockerfile |-> t.dockerfile]]
                    /\ fetched' = [fetched EXCEPT ![r] = t]
              /\ pc' = [pc EXCEPT ![r] = "classify"]
              /\ UNCHANGED stderr
           \/ /\ \E err \in GitStderrs : stderr' = [stderr EXCEPT ![r] = err]
              /\ UNCHANGED <<fs, fetched, pc>>
    /\ UNCHANGED <<client, input, repo_name, attempt, config, built,
                   build_logs, raised, resp>>

\* line 198: clone_repository; git fetches a tree or exits non-zero
Clone(r, trees) ==
    /\ pc[r] = "clone"
    /\ Called(r, "fetch")
    /\ LET w == repo_name[r]
       IN  \/ /\ CloneTarget(fs, w)
              /\ \E t \in trees :
                    /\ fs' = [MkDir(fs, w) EXCEPT ![w] =
                                 [exists |-> TRUE, files |-> t.files,
                                  dockerfile |-> t.dockerfile]]
                    /\ fetched' = [fetched EXCEPT ![r] = t]
              /\ pc' = [pc EXCEPT ![r] = "classify"]
              /\ UNCHANGED <<raised, resp, stderr>>
           \/ /\ \E err \in GitStderrs :
                    /\ stderr' = [stderr EXCEPT ![r] = err]
                    /\ Fails(r, CloneError(err))
              /\ UNCHANGED <<fs, fetched>>
    /\ UNCHANGED <<client, input, repo_name, attempt, config, built,
                   build_logs>>

\* line 200
Classify(r) ==
    /\ pc[r] = "classify"
    /\ Called(r, "classify")
    /\ config' = [config EXCEPT ![r] = detect_project_type(fs[repo_name[r]])]
    /\ pc' = [pc EXCEPT ![r] = "materialize"]
    /\ UNCHANGED <<client, fs, input, repo_name, attempt, resp, raised,
                   fetched, stderr, built, build_logs>>

\* the file open(build_dir / 'Dockerfile', 'w') and f.write(text) leave
WriteDockerfile(dir, text) == [dir EXCEPT !.dockerfile = text]

\* lines 202-203: the Dockerfile is written, or open() raises OSError (always
\* so when build_dir is gone)
Materialize(r) ==
    /\ pc[r] = "materialize"
    /\ Called(r, "materialize")
    /\ LET w == repo_name[r]
       IN  \/ /\ fs[w].exists
              /\ fs' = [fs EXCEPT ![w] = WriteDockerfile(@, config[r].dockerfile)]
              /\ pc' = [pc EXCEPT ![r] = "build"]
              /\ UNCHANGED <<raised, resp>>
           \/ /\ Fails(r, Exception("OSError",
                     Msg("", <<"[Errno 13] Permission denied: ">>,
                         BuildDir(w) \o <<"/","D","o","c","k","e","r","f","i","l","e">>)))
              /\ UNCHANGED fs
    /\ UNCHANGED <<client, input, repo_name, attempt, config, fetched, stderr,
                   built, build_logs>>

\* lines 205-220: client.images.build and the success response.  With no
\* client the attribute access raises; otherwise the engine builds what it
\* finds in build_dir and returns the image and its log, or raises.
Build(r, logs) ==
    /\ pc[r] = "build"
    /\ Called(r, "build")
    /\ LET w == repo_name[r]
       IN  IF client = "None"
           THEN /\ Fails(r, Exception("AttributeError",
                       Msg("", <<"'NoneType' object has no attribute 'images'">>, <<>>)))
                /\ UNCHANGED <<built, build_logs>>
           ELSE /\ built' = [built EXCEPT ![r] = fs[w].dockerfile]
                /\ \/ /\ fs[w].exists
                      /\ fs[w].dockerfile # NoFile
                      /\ \E log \in logs :
                            /\ build_logs' = [build_logs EXCEPT ![r] = log]
                            /\ resp' = [resp EXCEPT ![r] =
                                  SuccessResponse(ImageTag(w), config[r], log)]
                      /\ pc' = [pc EXCEPT ![r] = "finally"]
                      /\ UNCHANGED raised
                   \/ /\ \E e \in EngineErrors : Fails(r, e)
                      /\ UNCHANGED build_logs
    /\ UNCHANGED <<client, fs, input, repo_name, attempt, config, fetched,
                   stderr>>

\* lines 226-227: shutil.rmtree(build_dir, ignore_errors=True), then the
\* response made above is returned
Finally(r) ==
    /\ pc[r] = "finally"
    /\ \E removed \in BOOLEAN :
          fs' = IF removed THEN RmTree(fs, repo_name[r]) ELSE fs
    /\ pc' = [pc EXCEPT ![r] = "done"]
    /\ UNCHANGED <<client, input, repo_name, attempt, config, resp, raised,
                   steps, fetched, stderr, built, build_logs>>

\* the service, its requests handled concurrently
Next ==
    \E r \in Requests :
        \/ Receive(r, Bodies)
        \/ CleanAttempt(r)
        \/ Clone(r, SomeTrees)
        \/ Classify(r)
        \/ Materialize(r)
        \/ Build(r, SomeLogs)
        \/ Finally(r)

Spec == Init /\ [][Next]_vars

\* one request through the handler, with every tree and every build log
NextSingle ==
    \/ Receive("r1", Bodies)
    \/ CleanAttempt("r1")
    \/ Clone("r1", AllTrees)
    \/ Classify("r1")
    \/ Materialize("r1")
    \/ Build("r1", AllLogs)
    \/ Finally("r1")

SpecSingle == Init /\ [][NextSingle]_vars

(***************************************************************************)
(* Properties.                                                             *)
(***************************************************************************)
Returned(r) == pc[r] = "done"

ClientError(code) == code \in 400..499

ServerError(code) == code \in 500..599

IsErrorBody(body) == DOMAIN body = {"error"}

\* the inputs C1 lists: no JSON body, JSON that is no object, repo_url
\* absent, no string, blank, or a string without a scheme or without a host
Malformed(b) ==
    \/ ~b.is_json
    \/ ~b.well_formed
    \/ b.data.type # "object"
    \/ b.data.repo_url.type # "string"
    \/ Strip(b.data.repo_url.text) = <<>>
    \/ LET parsed == urlparse(Strip(b.data.repo_url.text))
       IN  ~parsed.raises /\ (parsed.scheme = <<>> \/ parsed.netloc = <<>>)

\* C1: a request whose repo_url is malformed or missing is answered with a
\* client error (4xx), and none of prepare, fetch, classify, materialize or
\* build has been called for it.
C1_MalformedIsClientError ==
    \A r \in Requests :
        (Returned(r) /\ Malformed(input[r])) =>
            /\ ClientError(resp[r].code)
            /\ steps[r] = <<>>

\* C2: when git reports "Repository not found" the response is a client
\* error (4xx) saying "not found or private"; when it reports a missing
\* credential the response is a client error (4xx) that mentions
\* authentication.
C2_FetchCausesAreClientErrors ==
    \A r \in Requests :
        Returned(r) =>
            /\ Contains(stderr[r], "Repository not found") =>
                  /\ ClientError(resp[r].code)
                  /\ IsErrorBody(resp[r].body)
                  /\ resp[r].body.error.text =
                        "Repository not found or private (needs access token)"
            /\ Contains(stderr[r], "could not read Username") =>
                  /\ ClientError(resp[r].code)
                  /\ IsErrorBody(resp[r].body)
                  /\ resp[r].body.error.text =
                        "Authentication failed - use HTTPS with token"

\* C3: when a request that passed validation returns its response, its
\* workspace directory does not exist: the step that returns the response
\* (the finally clause) leaves no directory at build_dir.
C3_WorkspaceGoneAtReturn ==
    [][\A r \in Requests :
          (pc[r] = "finally" /\ pc'[r] = "done") => ~fs'[repo_name[r]].exists]_vars

CatalogOrder == <<"nextjs", "react", "node", "python", "static">>

\* entry i of the catalog has all its detect paths in the directory
Satisfies(dir, i) ==
    \A k \in 1..Len(PROJECT_CONFIGS[i].detect) :
        dir.exists /\ PROJECT_CONFIGS[i].detect[k] \in dir.files

\* cfg is the first entry, in the order nextjs, react, node, python, static,
\* that the directory satisfies, or the static entry when it satisfies none
FirstMatch(cfg, dir) ==
    \E i \in 1..Len(CatalogOrder) :
        /\ cfg = PROJECT_CONFIGS[i]
        /\ cfg.type = CatalogOrder[i]
        /\ \/ Satisfies(dir, i) /\ \A j \in 1..(i - 1) : ~Satisfies(dir, j)
           \/ /\ CatalogOrder[i] = "static"
              /\ \A j \in 1..Len(CatalogOrder) : ~Satisfies(dir, j)

Classifies(r) == pc[r] = "classify" /\ pc'[r] = "materialize"

\* C4: whatever files the workspace holds, detect_project_type returns the
\* first catalog entry (order nextjs, react, node, python, static) whose
\* detect paths all exist, and the static entry when none does (also for an
\* empty tree): it always returns exactly one entry of the catalog.
C4_FirstMatchOrStatic ==
    [][\A r \in Requests :
          Classifies(r) => FirstMatch(config'[r], fs[repo_name[r]])]_vars

\* C4 witness: a tree that satisfies several entries has been classified
C4_Witness ==
    \E r \in Requests :
        /\ pc[r] = "materialize"
        /\ config[r].type = "react"
        /\ {"package.json", "src/App.js", "requirements.txt", "index.html"}
              \subseteq fs[repo_name[r]].files

DetectSet(cfg) == {cfg.detect[k] : k \in 1..Len(cfg.detect)}

\* every type of the catalog is what some tree is classified as
EveryTypeSelected ==
    \A i \in 1..Len(CatalogOrder) :
        \E t \in AllTrees :
            detect_project_type(
                [exists |-> TRUE, files |-> t.files, dockerfile |-> t.dockerfile]
            ).type = CatalogOrder[i]

\* C5: the catalog order never shadows a more specific entry: a tree with
\* next.config.js is nextjs also when it has package.json, a tree with
\* package.json and src/App.js (and no next.config.js) is react and not
\* node, no entry that the tree satisfies asks for all the files of the
\* selected one and more, and every catalog type is the classification of
\* some tree.
C5_SpecificEntryWins ==
    [][\A r \in Requests :
          Classifies(r) =>
             LET dir    == fs[repo_name[r]]
                 chosen == config'[r]
             IN  /\ FileExists(dir, "next.config.js") => chosen.type = "nextjs"
                 /\ ( /\ FileExists(dir, "package.json")
                      /\ FileExists(dir, "src/App.js")
                      /\ ~FileExists(dir, "next.config.js") )
                       => chosen.type = "react"
                 /\ \A i \in 1..Len(PROJECT_CONFIGS) :
                       ~ ( /\ Satisfies(dir, i)
                           /\ DetectSet(chosen) \subseteq DetectSet(PROJECT_CONFIGS[i])
                           /\ DetectSet(chosen) # DetectSet(PROJECT_CONFIGS[i]) )
                 /\ EveryTypeSelected]_vars

\* C5 witness: a tree with next.config.js and package.json was classified
\* as nextjs
C5_Witness ==
    \E r \in Requests :
        /\ pc[r] = "materialize"
        /\ config[r].type = "nextjs"
        /\ {"next.config.js", "package.json"} \subseteq fs[repo_name[r]].files

\* sub occurs in s as a run of consecutive characters
ContainsText(s, sub) ==
    \E i \in 0..(Len(s) - Len(sub)) : SubSeq(s, i + 1, i + Len(sub)) = sub

AsDir(tree) ==
    [exists |-> TRUE, files |-> tree.files, dockerfile |-> tree.dockerfile]

\* C6: a request in which prepare, fetch, materialize and build succeed gets
\* a success response whose type and port are those of the recipe that
\* classifying the tree it fetched selects, whose run command maps to that
\* port, and whose image reference contains the sanitized repository name;
\* next.config.js with package.json gives nextjs and 3000, and index.html
\* alone, fetched from .../my-static-site.git, gives static, 80 and an image
\* tag containing my-static-site.
C6_SuccessReportsFetchedRecipe ==
    \A r \in Requests :
        (Returned(r) /\ resp[r].code = 200) =>
            LET b == resp[r].body
            IN  /\ \E i \in 1..Len(PROJECT_CONFIGS) :
                      /\ FirstMatch(PROJECT_CONFIGS[i], AsDir(fetched[r]))
                      /\ b.type = PROJECT_CONFIGS[i].type
                      /\ b.port = PROJECT_CONFIGS[i].port
                /\ b.run_command.container = b.port
                /\ b.run_command.image = b.image
                /\ ContainsText(b.image, repo_name[r])
                /\ {"next.config.js", "package.json"} \subseteq fetched[r].files
                      => b.type = "nextjs" /\ b.port = 3000
                /\ ( /\ fetched[r].files = {"index.html"}
                     /\ input[r].data.repo_url.text = UrlStatic )
                      => /\ b.type = "static"
                         /\ b.port = 80
                         /\ ContainsText(b.image,
                               <<"m","y","-","s","t","a","t","i","c","-","s","i","t","e">>)

\* C7: whenever the engine is invoked for a request, the Dockerfile it finds
\* at the workspace root is exactly the template text of the recipe that
\* classification selected for that request.
C7_EngineFindsTemplate ==
    \A r \in Requests :
        built[r] # NotBuilt =>
            /\ \E i \in 1..Len(PROJECT_CONFIGS) : config[r] = PROJECT_CONFIGS[i]
            /\ built[r] = config[r].dockerfile

\* C8: clean_build_dir makes at most 3 attempts: an attempt starts only
\* after fewer than 3 failures, the call raises only when the third attempt
\* fails, and an attempt that succeeds ends the call at once with the
\* directory in place.
C8_AtMostThreeAttempts ==
    [][\A r \in Requests :
          pc[r] = "prepare" =>
             /\ attempt[r] < 3
             /\ pc'[r] \in {"prepare", "clone", "finally"}
             /\ pc'[r] = "finally" =>
                   /\ attempt[r] = 2
                   /\ raised'[r].type = "RuntimeError"
                   /\ raised'[r].msg.text = "Failed to clean build directory: "
             /\ pc'[r] = "clone" =>
                   /\ fs'[repo_name[r]].exists
                   /\ raised'[r] = NoException
             /\ (pc'[r] = "prepare" /\ attempt'[r] # attempt[r]) =>
                   attempt'[r] = attempt[r] + 1]_vars

\* C8 witness: a call of clean_build_dir has failed after its third attempt
C8_Witness ==
    \E r \in Requests :
        /\ raised[r].msg.text = "Failed to clean build directory: "
        /\ steps[r] = <<"prepare">>

\* the stripped text of the lines that have a non-blank 'stream', in order
RECURSIVE StreamTexts(_)
StreamTexts(lines) ==
    IF lines = <<>> THEN <<>>
    ELSE LET line == Head(lines)
             text == IF "stream" \in DOMAIN line THEN Strip(line.stream) ELSE <<>>
         IN  (IF text = <<>> THEN <<>> ELSE <<text>>) \o StreamTexts(Tail(lines))

\* C9: however many lines the engine produced, 'logs' of a success response
\* has at most 20 entries, and they are the last 20 (all, if fewer) of the
\* non-blank 'stream' lines, each as its stripped text, in their order.
C9_LogsAreLastTwenty ==
    \A r \in Requests :
        resp[r].code = 200 =>
            LET logs == resp[r].body.logs
                all  == StreamTexts(build_logs[r])
            IN  /\ Len(logs) <= 20
                /\ Len(logs) = IF Len(all) < 20 THEN Len(all) ELSE 20
                /\ \A i \in 1..Len(logs) : logs[i] = all[Len(all) - Len(logs) + i]

\* C9 witness: a success response for a build log with more than 20 log
\* lines and other lines between them
C9_Witness ==
    \E r \in Requests :
        /\ Returned(r)
        /\ resp[r].code = 200
        /\ Len(StreamTexts(build_logs[r])) > 20
        /\ Len(build_logs[r]) > Len(StreamTexts(build_logs[r]))

\* the failures the handler anticipates: workspace, fetch, materialize, build
Anticipated(e) ==
    \/ e.type \in {"RuntimeError", "OSError", "BuildError", "APIError"}
    \/ /\ e.type = "ValueError"
       /\ e.msg.text \in {"Repository not found or private (needs access token)",
                         "Authentication failed - use HTTPS with token"}

GenericMessage == Msg("Internal server error", <<>>, <<>>)

\* C10: an exception raised inside the handler's try block (lines 187-231)
\* that is none of the anticipated failures is answered with a server error
\* whose message is the generic one, without the exception's own text.
C10_UnexpectedIsGeneric ==
    \A r \in Requests :
        ( /\ Returned(r)
          /\ raised[r] # NoException
          /\ ~Anticipated(raised[r])
          /\ (steps[r] # <<>> \/ raised[r].msg.text = "Invalid IPv6 URL") )
            => /\ ServerError(resp[r].code)
               /\ IsErrorBody(resp[r].body)
               /\ resp[r].body.error = GenericMessage
               /\ resp[r].body.error # raised[r].msg

\* C11: every request that fails, whatever its input and whichever step
\* failed, is answered with a JSON object that holds only an 'error' message,
\* with a 4xx or 5xx status: no exception leaves build_image to be answered
\* by the framework's own error page.
C11_FailureIsJsonError ==
    \A r \in Requests :
        (Returned(r) /\ resp[r].code # 200) =>
            /\ IsErrorBody(resp[r].body)
            /\ ClientError(resp[r].code) \/ ServerError(resp[r].code)
            /\ resp[r] # FrameworkResponse(resp[r].code)

\* the request is past validation and has not yet returned
InFlight(r) == pc[r] \notin {"idle", "done"}

\* repo_url of a request that passed validation, line 182
RepoUrl(r) == Strip(input[r].data.repo_url.text)

\* the request is between the return of its clean_build_dir and the end of
\* its build
BetweenPrepareAndBuild(r) == pc[r] \in {"clone", "classify", "materialize", "build"}

\* C12: two requests in flight for the same repository URL have the same
\* workspace path, the one the repository name alone gives; and (the
\* witness) one request's prepare replaces the workspace while the other is
\* between its own prepare and the end of its build.
C12_SameRepoSameWorkspace ==
    \A q \in Requests : \A r \in Requests \ {q} :
        (InFlight(q) /\ InFlight(r) /\ RepoUrl(q) = RepoUrl(r)) =>
            /\ BuildDir(repo_name[q]) = BuildDir(repo_name[r])
            /\ repo_name[q] = RepoName(urlparse(RepoUrl(q)).path)

\* C12 witness: q has fetched, written its Dockerfile and is about to build,
\* and the prepare of r, for the same repository, has just left the shared
\* workspace empty
C12_Witness ==
    \E q \in Requests : \E r \in Requests \ {q} :
        /\ RepoUrl(q) = UrlApp
        /\ RepoUrl(r) = UrlApp
        /\ repo_name[q] = repo_name[r]
        /\ pc[q] = "build"
        /\ steps[q] = <<"prepare", "fetch", "classify", "materialize">>
        /\ pc[r] = "clone"
        /\ fs[repo_name[q]] = EmptyDir

\* C13: two requests in flight with different repository URLs never have the
\* same workspace path, so the prepare and the teardown of one never touch
\* the workspace of the other.
C13_DifferentUrlsDifferentWorkspaces ==
    \A q \in Requests : \A r \in Requests \ {q} :
        (InFlight(q) /\ InFlight(r) /\ RepoUrl(q) # RepoUrl(r)) =>
            BuildDir(repo_name[q]) # BuildDir(repo_name[r])

\* the helpers build_image calls, in the order of lines 197-205
Pipeline == <<"prepare", "fetch", "classify", "materialize", "build">>

\* C14: within one request the steps are called only in the order prepare,
\* fetch, classify, materialize, build, and only for a request that passed
\* validation; a step is called only while no earlier step has failed, and
\* once a step has failed the request goes to its end with the error response
\* of that failure: no later step is called and the engine is not invoked.
C14_StepsInPipelineOrder ==
    [][\A r \in Requests :
          /\ steps'[r] # steps[r] =>
                /\ pc[r] # "idle"
                /\ Validate(input[r]).goes_on
                /\ raised[r] = NoException
                /\ resp[r] = NoResponse
                /\ Len(steps[r]) < Len(Pipeline)
                /\ steps'[r] = Append(steps[r], Pipeline[Len(steps[r]) + 1])
          /\ (raised[r] = NoException /\ raised'[r] # NoException) =>
                /\ pc'[r] \in {"finally", "done"}
                /\ ~ClientError(resp'[r].code) => ServerError(resp'[r].code)
                /\ resp'[r].code # 200
          /\ raised[r] # NoException =>
                /\ pc[r] \in {"finally", "done"}
                /\ pc'[r] \in {"finally", "done"}
                /\ steps'[r] = steps[r]
                /\ built'[r] = built[r]
                /\ resp'[r] = resp[r]]_vars

\* C14 witness: a request whose Dockerfile could not be written has returned
\* without the engine having been invoked
C14_Witness ==
    \E r \in Requests :
        /\ Returned(r)
        /\ raised[r].type = "OSError"
        /\ steps[r] = <<"prepare", "fetch", "classify", "materialize">>
        /\ built[r] = NotBuilt
        /\ ServerError(resp[r].code)

\* how often the step occurs among the steps called
Count(called, step) == Cardinality({i \in 1..Len(called) : called[i] = step})

\* C15: git is run at most once per request; when it fails it is not run
\* again: the request goes to its end with the exception clone_repository
\* raised for that failure, and the message of that exception is its response.
C15_FetchOnceNoRetry ==
    \A r \in Requests :
        /\ Count(steps[r], "fetch") <= 1
        /\ stderr[r] # <<>> =>
              /\ pc[r] \in {"finally", "done"}
              /\ steps[r] = <<"prepare", "fetch">>
              /\ raised[r] = CloneError(stderr[r])
              /\ fetched[r] = NoTree
              /\ IsErrorBody(resp[r].body)
              /\ resp[r].body.error = CloneError(stderr[r]).msg

\* C15 witness: a request whose git failed has returned with that failure
C15_Witness ==
    \E r \in Requests :
        /\ Returned(r)
        /\ stderr[r] # <<>>
        /\ raised[r].type = "RuntimeError"
        /\ resp[r].body.error.text = "Git clone failed: "
        /\ Count(steps[r], "fetch") = 1

\* the step in which the request's exception was raised
FailedStep(r) ==
    IF raised[r] = NoException \/ steps[r] = <<>> THEN "none"
    ELSE steps[r][Len(steps[r])]

DockerfilePath(name) ==
    BuildDir(name) \o <<"/","D","o","c","k","e","r","f","i","l","e">>

\* C16: a failure of workspace preparation, a git failure that is neither
\* "not found" nor a missing credential, a failure to write the Dockerfile
\* and a failure of the engine each give a server error (5xx) whose 'error'
\* is the message of that step's own exception: the directory that could not
\* be prepared, git's stderr, the text of the OS error, the engine's text.
C16_StepFailuresCarryDiagnostic ==
    \A r \in Requests :
        pc[r] \in {"finally", "done"} =>
            LET e == resp[r].body.error
            IN  /\ FailedStep(r) = "prepare" =>
                      /\ ServerError(resp[r].code) /\ IsErrorBody(resp[r].body)
                      /\ e.text = "Failed to clean build directory: "
                      /\ e.path = BuildDir(repo_name[r])
                /\ ( /\ FailedStep(r) = "fetch"
                     /\ ~Contains(stderr[r], "Repository not found")
                     /\ ~Contains(stderr[r], "could not read Username") ) =>
                      /\ ServerError(resp[r].code) /\ IsErrorBody(resp[r].body)
                      /\ e.text = "Git clone failed: "
                      /\ e.detail = StripPhrases(stderr[r])
                      /\ e.detail # <<>>
                /\ FailedStep(r) = "materialize" =>
                      /\ ServerError(resp[r].code) /\ IsErrorBody(resp[r].body)
                      /\ e = raised[r].msg
                      /\ e.detail # <<>>
                      /\ e.path = DockerfilePath(repo_name[r])
                /\ (FailedStep(r) = "build" /\ raised[r] \in EngineErrors) =>
                      /\ ServerError(resp[r].code) /\ IsErrorBody(resp[r].body)
                      /\ e = raised[r].msg
                      /\ e.detail # <<>>

\* C16 witness: a request whose engine build failed has returned
C16_Witness ==
    \E r \in Requests :
        /\ Returned(r)
        /\ FailedStep(r) = "build"
        /\ raised[r].type = "BuildError"
        /\ resp[r] = ErrorResponse(500, raised[r].msg)

\* C17: whenever clean_build_dir returns (the request goes on to the clone),
\* the workspace directory exists and is empty: nothing an earlier request
\* left in it remains, also when the removal failed.
C17_CleanLeavesEmptyDir ==
    [][\A r \in Requests :
          (pc[r] = "prepare" /\ pc'[r] = "clone") =>
              fs'[repo_name[r]] = EmptyDir]_vars

(***************************************************************************)
(* The derivation of repo_name on its own: a request arrives with a URL    *)
(* https://h followed by any text of up to MaxPathLen characters that      *)
(* exercise lines 189-194 (separators, dots, an upper-case and a lower-case *)
(* letter, a character outside [a-z0-9-], a hyphen).                       *)
(***************************************************************************)
MaxPathLen == 4

PathChars == {"/", ".", "R", "e", "_", "-"}

UrlHead == <<"h","t","t","p","s",":","/","/","h">>

GeneratedUrls ==
    {UrlHead \o p : p \in UNION {[1..k -> PathChars] : k \in 0..MaxPathLen}}

UrlBodies == {Body(TRUE, TRUE, JsonObject(JsonText(u))) : u \in GeneratedUrls}

NextUrl == Receive("r1", UrlBodies)

SpecUrl == Init /\ [][NextUrl]_vars

\* c is the last component of path: a run of characters other than "/",
\* bounded by "/" or the ends of the path, that is not "." and has only
\* separators and "." components after it
IsLastComponent(path, i, j) ==
    /\ 1 <= i /\ i <= j /\ j <= Len(path)
    /\ \A k \in i..j : path[k] # "/"
    /\ i = 1 \/ path[i - 1] = "/"
    /\ j = Len(path) \/ path[j + 1] = "/"
    /\ SubSeq(path, i, j) # <<".">>
    /\ \A k \in (j + 1)..Len(path) :
          \/ path[k] = "/"
          \/ /\ path[k] = "."
             /\ path[k - 1] = "/"
             /\ k = Len(path) \/ path[k + 1] = "/"

\* stem is c without its last suffix: c is stem, a dot and a non-empty text
\* without a dot, with stem not empty; a c that is not of this form is its
\* own stem
IsStemOf(stem, c) ==
    LET dotted == \E d \in 2..(Len(c) - 1) :
                      /\ c[d] = "."
                      /\ \A k \in (d + 1)..Len(c) : c[k] # "."
    IN  IF dotted
        THEN \E d \in 2..(Len(c) - 1) :
                 /\ c[d] = "."
                 /\ \A k \in (d + 1)..Len(c) : c[k] # "."
                 /\ stem = SubSeq(c, 1, d - 1)
        ELSE stem = c

\* name is stem lower-cased, with '-' for every character outside [a-z0-9-]
IsSanitized(name, stem) ==
    /\ Len(name) = Len(stem)
    /\ \A k \in 1..Len(stem) :
          name[k] = IF stem[k] \in LowerLetters \cup Digits \cup {"-"} THEN stem[k]
                    ELSE IF stem[k] \in UpperLetters THEN UpperToLower[stem[k]]
                    ELSE "-"

\* dir is /tmp/builds or a directory directly in it, named without "/" or "."
InsideBuildsRoot(dir) ==
    /\ Len(dir) >= Len(BuildsRoot)
    /\ SubSeq(dir, 1, Len(BuildsRoot)) = BuildsRoot
    /\ Len(dir) > Len(BuildsRoot) =>
          /\ dir[Len(BuildsRoot) + 1] = "/"
          /\ \A k \in (Len(BuildsRoot) + 2)..Len(dir) : dir[k] \notin {"/", "."}

\* C18: for every URL that passes validation, repo_name is the stem of the
\* last component of the URL's path, lower-cased, with every character
\* outside [a-z0-9-] replaced by '-' (empty when the path has no component);
\* it holds only characters of [a-z0-9-], and build_dir is /tmp/builds or a
\* directory directly in it.
C18_WorkspaceNameIsSanitizedStem ==
    \A r \in Requests :
        pc[r] = "prepare" =>
            LET path == urlparse(RepoUrl(r)).path
                name == repo_name[r]
                last == {<<i, j>> \in (1..Len(path)) \X (1..Len(path)) :
                            IsLastComponent(path, i, j)}
            IN  /\ \A k \in 1..Len(name) : name[k] \in SafeChars
                /\ Cardinality(last) <= 1
                /\ last = {} => name = <<>>
                /\ \A c \in last :
                      \E n \in 0..Len(path) :
                          LET stem == SubSeq(path, c[1], c[1] + n - 1)
                          IN  /\ IsStemOf(stem, SubSeq(path, c[1], c[2]))
                              /\ IsSanitized(name, stem)
                /\ InsideBuildsRoot(BuildDir(name))

\* C18 witness: a URL whose last path component has an upper-case letter
\* and a character outside [a-z0-9-] passed validation
C18_Witness ==
    /\ pc["r1"] = "prepare"
    /\ RepoUrl("r1") = UrlHead \o <<"/", "R", "_", "e">>
    /\ repo_name["r1"] = <<"r", "-", "e">>

\* the request takes a step of its clean_build_dir or its finally clause
CleansOrTearsDown(r) ==
    /\ pc[r] \in {"prepare", "finally"}
    /\ pc'[r] # pc[r] \/ attempt'[r] # attempt[r]

\* C19: the prepare and the teardown of a request, whatever URL passed
\* validation (also one with an empty path), remove nothing but that
\* request's own workspace: every other directory under /tmp/builds that
\* existed before the step is there, unchanged, after it.
C19_DeletesOnlyOwnWorkspace ==
    [][\A r \in Requests :
          CleansOrTearsDown(r) =>
              \A x \in Workspaces \ {repo_name[r]} :
                  fs[x].exists => fs'[x] = fs[x]]_vars

\* C20: with no docker client (the connection failed at startup), a request
\* that passed validation and whose prepare, fetch and materialize did not
\* fail has called prepare, fetch, classify and materialize, failed in the
\* build step with a server error that reports no image, without the engine
\* having been invoked, and at its return its workspace is gone.
C20_NoClientFailsAtBuild ==
    \A r \in Requests :
        ( /\ client = "None"
          /\ Returned(r)
          /\ Validate(input[r]).goes_on
          /\ FailedStep(r) \notin {"prepare", "fetch", "materialize"} ) =>
            /\ steps[r] = Pipeline
            /\ FailedStep(r) = "build"
            /\ ServerError(resp[r].code)
            /\ IsErrorBody(resp[r].body)
            /\ built[r] = NotBuilt
            /\ ~fs[repo_name[r]].exists

=============================================================================
